---- MODULE Spec2Model ----
(***************************************************************************)
(* A model of the TimeControl single-page client: the axios ApiService     *)
(* with its token-refresh interceptor, the zustand auth store, the route   *)
(* guards of App, the dashboard's vacation forms, the admin daily overview *)
(* aggregation, the calendar page's weekly reminder walk and the admin     *)
(* change-request page.                                                    *)
(***************************************************************************)
EXTENDS Integers, Sequences, FiniteSets, TLC

(***************************************************************************)
(* Bounds.                                                                 *)
(***************************************************************************)
\* token pairs the server can issue are 1..MaxPair; 0 is "not stored"
MaxPair == 2
\* the deepest chain of interceptor frames (original request + nested
\* refresh requests) the server's 401 answers are allowed to build
MaxDepth == 3
\* calendar days of the vacation forms are 0..MaxDate
MaxDate == 3
\* vacations in the loaded schedule
MaxVacations == 1
\* employees on the daily overview, and time entries of one employee-day
MaxEmployees == 2
MaxEntries == 2
\* weekly reminder: holidays, days with entries and days with a status
\* among Monday..Friday of the current week
MaxHolidays == 1
MaxEntryDays == 1
MaxStatusDays == 1
\* change requests on the server
MaxRequests == 2
\* time entries in the server's table, and day-summary requests of date
\* clicks that are in flight at once
MaxTimeEntries == 2
MaxSummaryCalls == 2

VARIABLES
  \* ---- localStorage (ApiService) ----
  access,          \* localStorage access_token, 0 when absent
  refresh,         \* localStorage refresh_token, 0 when absent
  \* ---- useAuthStore ----
  user,            \* user?.role, or "none" when user is null
  isAuthenticated,
  isLoading,
  error,
  \* ---- browser / router ----
  location,        \* current URL path
  view,            \* what React has rendered: [page, adminMenu]
  reloadPending,   \* window.location.href = '/login' has been assigned
  \* ---- HTTP calls in flight through the axios client ----
  authOp,          \* the call made by login() or checkAuth()
  dataOp,          \* a call made by a page or by MainLayout
  \* ---- observation of the last completed step ----
  lastEvent

authVars == <<access, refresh, user, isAuthenticated, isLoading, error,
              location, view, reloadPending, authOp, dataOp, lastEvent>>

VARIABLES
  \* ---- DashboardPage: vacations ----
  vToday,                   \* the day number of dayjs()
  vacations,                \* the list loaded by fetchSchedule
  vacationModalVisible,
  vacationForm,             \* the value of the field 'dates'
  editVacationModalVisible,
  editingVacation,
  editVacationForm,         \* the fields date_from and date_to
  vacationRequest,          \* the request sent by the step just taken
  editOpenedOn              \* the day of dayjs() in openEditVacationModal

vacVars == <<vToday, vacations, vacationModalVisible, vacationForm,
             editVacationModalVisible, editingVacation, editVacationForm,
             vacationRequest, editOpenedOn>>

VARIABLES
  \* ---- admin DailyOverviewPage ----
  dTz,             \* the browser's time zone
  dServer,         \* what the server holds for each employee
  selectedDate,
  dailyData,       \* the rows built by fetchDailyData
  \* ---- CalendarPage: weekly reminder ----
  wk,              \* today, the role, and the server's data for the week
  weeklyReminderChecked,
  missingDays,
  currentFillingDay,
  weeklyReminderVisible,
  \* ---- admin ChangeRequestsPage ----
  crServer,        \* the status each request has on the server
  requests,        \* the list loaded by fetchRequests
  statusFilter,
  selectedRequest,
  resolveModalVisible,
  resolving,
  resolveCall,     \* the resolveChangeRequest call in flight
  lastResolve      \* the last resolveChangeRequest sent

dailyVars == <<dTz, dServer, selectedDate, dailyData>>

weeklyVars == <<wk, weeklyReminderChecked, missingDays, currentFillingDay,
                weeklyReminderVisible>>

reqVars == <<crServer, requests, statusFilter, selectedRequest,
             resolveModalVisible, resolving, resolveCall, lastResolve>>

VARIABLES
  \* ---- time entries: the server, DashboardPage and CalendarPage ----
  teServer,                  \* the time entries the server holds
  cPage,                     \* the mounted page: "dashboard" or "calendar"
  todaySummary,              \* DashboardPage: the summary of today
  calSelectedDate,           \* CalendarPage: selectedDate
  daySummary,                \* CalendarPage: the summary shown in the dialog
  detailModalVisible,
  entryModalVisible,         \* the entry form of the mounted page
  editingEntry,
  changeRequestModalVisible,
  summaryCalls,              \* getDaySummary calls of handleDateSelect in flight
  lastCall                   \* the request sent by the step just taken

calVars == <<teServer, cPage, todaySummary, calSelectedDate, daySummary,
             detailModalVisible, entryModalVisible, editingEntry,
             changeRequestModalVisible, summaryCalls, lastCall>>

vars == <<authVars, vacVars, dailyVars, weeklyVars, reqVars, calVars>>

(***************************************************************************)
(* Routes of App.                                                          *)
(***************************************************************************)
AdminPaths == {"/admin", "/admin/employees", "/admin/stats", "/admin/daily",
               "/admin/calendar", "/admin/settings", "/admin/change-requests"}

UserPaths == {"/", "/calendar", "/stats", "/office", "/profile"}

Paths == {"/login"} \cup UserPaths \cup AdminPaths

AdminPages == {"AdminDashboard", "EmployeesPage", "AdminStatsPage",
               "DailyOverviewPage", "AdminCalendarPage", "SettingsPage",
               "ChangeRequestsPage"}

\* the element each <Route> names
PageOf(path) ==
  CASE path = "/" -> "DashboardPage"
    [] path = "/calendar" -> "CalendarPage"
    [] path = "/stats" -> "StatsPage"
    [] path = "/office" -> "OfficePage"
    [] path = "/profile" -> "ProfilePage"
    [] path = "/admin" -> "AdminDashboard"
    [] path = "/admin/employees" -> "EmployeesPage"
    [] path = "/admin/stats" -> "AdminStatsPage"
    [] path = "/admin/daily" -> "DailyOverviewPage"
    [] path = "/admin/calendar" -> "AdminCalendarPage"
    [] path = "/admin/settings" -> "SettingsPage"
    [] path = "/admin/change-requests" -> "ChangeRequestsPage"
    [] OTHER -> "LoginPage"

Show(p) == [t |-> "page", name |-> p]
Navigate(to) == [t |-> "redirect", name |-> to]

\* AdminRoute with the mutation "the role test is dropped"
AdminRouteNoRole(path, u, auth, loading) ==
  IF loading THEN Show("Spin")
  ELSE IF ~auth THEN Navigate("/login")
  ELSE Show(PageOf(path))

AdminRoute(path, u, auth, loading) ==
  IF loading THEN Show("Spin")
  ELSE IF ~auth THEN Navigate("/login")
  ELSE IF u # "admin" THEN Navigate("/")
  ELSE Show(PageOf(path))

PrivateRoute(path, u, auth, loading) ==
  IF loading THEN Show("Spin")
  ELSE IF ~auth THEN Navigate("/login")
  ELSE IF path \in AdminPaths THEN AdminRoute(path, u, auth, loading)
  ELSE Show(PageOf(path))

\* LoginPage: its first effect navigates to '/' once isAuthenticated
LoginPage(auth) == IF auth THEN Navigate("/") ELSE Show("LoginPage")

\* App: the spinner replaces the whole router while isLoading
App(path, u, auth, loading) ==
  IF loading THEN Show("Spin")
  ELSE IF path = "/login" THEN LoginPage(auth)
  ELSE PrivateRoute(path, u, auth, loading)

\* the URL after the redirects of the rendered route have been followed
RECURSIVE Settle(_, _, _, _)
Settle(path, u, auth, loading) ==
  LET r == App(path, u, auth, loading)
  IN IF r.t = "redirect" THEN Settle(r.name, u, auth, loading) ELSE path

\* MainLayout.menuItems: is the admin group part of the menu
MenuHasAdminGroup(u) == u = "admin"

\* what is on screen at a settled URL
Render(path, u, auth, loading) ==
  LET r == App(path, u, auth, loading)
  IN [page |-> r.name,
      adminMenu |-> IF r.name \in {"Spin", "LoginPage"} THEN FALSE
                    ELSE MenuHasAdminGroup(u)]

(***************************************************************************)
(* ApiService: a call through the axios client and its interceptors.       *)
(* A call is a stack of frames: the original request at the bottom and,    *)
(* above it, the /auth/refresh requests posted by the response             *)
(* interceptor.  Every frame below the top one is awaiting a refresh and   *)
(* has _retry = true, so the stack is its depth plus the top frame.        *)
(***************************************************************************)
Idle == [kind |-> "idle", depth |-> 0, retry |-> FALSE, hdr |-> 0,
         sent |-> 0, refreshFailed |-> FALSE]

\* request interceptor: Authorization carries the stored access token
NewCall(k, acc) == [kind |-> k, depth |-> 1, retry |-> FALSE, hdr |-> acc,
                    sent |-> 1, refreshFailed |-> FALSE]

Statuses == {200, 401, 500}

NoEvent == [ev |-> "init", kind |-> "idle", status |-> 0, pair |-> 0,
            retried |-> FALSE, depth |-> 0, sent |-> 0,
            refreshFailed |-> FALSE, detail |-> "none", role |-> "none",
            path |-> "none", hadToken |-> FALSE]

\* does the response interceptor post a refresh for this error
WillRefresh(o, status, ref) == status = 401 /\ ~o.retry /\ ref # 0

\* Resend with the mutation "_retry is not set on the original request"
ResendUnmarked(o, pair) ==
  [o EXCEPT !.depth = o.depth - 1, !.retry = FALSE, !.hdr = pair,
            !.sent = IF o.depth = 2 THEN o.sent + 1 ELSE o.sent]

\* the frame below a resolved refresh is sent again: it carries
\* _retry = true and the new access token; sent counts the transmissions
\* of the original request
Resend(o, pair) ==
  [o EXCEPT !.depth = o.depth - 1, !.retry = TRUE, !.hdr = pair,
            !.sent = IF o.depth = 2 THEN o.sent + 1 ELSE o.sent]

\* The result of one HTTP response for the top frame of call o:
\* the call afterwards, the stored tokens afterwards, whether the page
\* was sent to /login, and whether the call has settled.
OnResponse(o, status, pair, acc, ref) ==
  IF status = 200
  THEN IF o.depth = 1
       THEN [out |-> "resolved", op |-> Idle, access |-> acc,
             refresh |-> ref, reload |-> FALSE]
       ELSE \* the awaited refresh resolved: store the pair, re-send
            [out |-> "pending", op |-> Resend(o, pair),
             access |-> pair, refresh |-> pair, reload |-> FALSE]
  ELSE IF WillRefresh(o, status, ref)
       THEN [out |-> "pending",
             op |-> [o EXCEPT !.depth = o.depth + 1, !.retry = FALSE,
                              !.hdr = acc,
                              !.refreshFailed = @ \/ o.depth > 1],
             access |-> acc, refresh |-> ref, reload |-> FALSE]
       ELSE IF o.depth = 1
            THEN [out |-> "rejected", op |-> Idle, access |-> acc,
                  refresh |-> ref, reload |-> FALSE]
            ELSE \* every awaiting frame catches: logout, redirect, reject
                 [out |-> "rejected", op |-> Idle, access |-> 0,
                  refresh |-> 0, reload |-> TRUE]

Event(name, o, status, pair, detail, role, path) ==
  [ev |-> name, kind |-> o.kind, status |-> status, pair |-> pair,
   retried |-> o.retry, depth |-> o.depth, sent |-> o.sent,
   refreshFailed |-> o.refreshFailed \/ (o.depth > 1 /\ status # 200),
   detail |-> detail, role |-> role, path |-> path,
   hadToken |-> o.kind = "me"]

(***************************************************************************)
(* Initial state: a fresh browser profile on the login page.               *)
(***************************************************************************)
AuthInit ==
  /\ access = 0 /\ refresh = 0
  /\ user = "none" /\ isAuthenticated = FALSE
  /\ isLoading = FALSE /\ error = "none"
  /\ location = "/login"
  /\ view = Render("/login", "none", FALSE, FALSE)
  /\ reloadPending = FALSE
  /\ authOp = Idle /\ dataOp = Idle
  /\ lastEvent = NoEvent

\* location and view after a store change
Rerender(path, u, auth, loading) ==
  /\ location' = Settle(path, u, auth, loading)
  /\ view' = Render(Settle(path, u, auth, loading), u, auth, loading)

(***************************************************************************)
(* The browser loads the application at a URL (typed, reloaded, or the     *)
(* interceptor's window.location.href).  The store is rehydrated from      *)
(* 'auth-storage' (user, isAuthenticated), calls in flight are lost, and   *)
(* App's effect runs checkAuth.                                            *)
(***************************************************************************)
PageLoad(path) ==
  /\ reloadPending => path = "/login"
  /\ reloadPending' = FALSE
  /\ error' = "none"
  /\ dataOp' = IF isAuthenticated /\ path # "/login"
               THEN NewCall("data", access) ELSE Idle
  /\ UNCHANGED <<access, refresh>>
  /\ IF access = 0
     THEN /\ user' = "none" /\ isAuthenticated' = FALSE
          /\ isLoading' = FALSE
          /\ authOp' = Idle
          /\ lastEvent' = [NoEvent EXCEPT !.ev = "checkAuth.noToken",
                                       !.path = path]
          /\ Rerender(path, "none", FALSE, FALSE)
     ELSE /\ UNCHANGED <<user, isAuthenticated>>
          /\ isLoading' = TRUE
          /\ authOp' = NewCall("me", access)
          /\ lastEvent' = [NoEvent EXCEPT !.ev = "checkAuth.start",
                                       !.path = path, !.hadToken = TRUE]
          /\ Rerender(path, user, isAuthenticated, TRUE)
  /\ UNCHANGED <<vacVars, dailyVars, weeklyVars, reqVars, calVars>>

\* a click on a menu item of MainLayout
MenuNavigate(path) ==
  /\ view.page \notin {"Spin", "LoginPage"}
  /\ path \in UserPaths \cup (IF view.adminMenu THEN AdminPaths ELSE {})
  /\ Rerender(path, user, isAuthenticated, isLoading)
  /\ lastEvent' = [NoEvent EXCEPT !.ev = "navigate"]
  /\ UNCHANGED <<access, refresh, user, isAuthenticated, isLoading, error,
                 reloadPending, authOp, dataOp>>
  /\ UNCHANGED <<vacVars, dailyVars, weeklyVars, reqVars, calVars>>

\* LoginPage.onFinish -> useAuthStore.login, up to the await
LoginSubmit ==
  /\ view.page = "LoginPage"
  /\ authOp = Idle
  /\ isLoading' = TRUE
  /\ error' = "none"
  /\ authOp' = NewCall("login", access)
  /\ Rerender(location, user, isAuthenticated, TRUE)
  /\ lastEvent' = [NoEvent EXCEPT !.ev = "login.start"]
  /\ UNCHANGED <<access, refresh, user, isAuthenticated, reloadPending,
                 dataOp>>
  /\ UNCHANGED <<vacVars, dailyVars, weeklyVars, reqVars, calVars>>

\* LoginPage's effect: message.error, clearError()
ClearError ==
  /\ view.page = "LoginPage"
  /\ error # "none"
  /\ error' = "none"
  /\ lastEvent' = [NoEvent EXCEPT !.ev = "clearError"]
  /\ UNCHANGED <<access, refresh, user, isAuthenticated, isLoading,
                 location, view, reloadPending, authOp, dataOp>>
  /\ UNCHANGED <<vacVars, dailyVars, weeklyVars, reqVars, calVars>>

\* the user menu's logout: useAuthStore.logout, then navigate('/login')
StoreLogout ==
  /\ view.page \notin {"Spin", "LoginPage"}
  /\ access' = 0 /\ refresh' = 0
  /\ user' = "none" /\ isAuthenticated' = FALSE
  /\ Rerender("/login", "none", FALSE, isLoading)
  /\ lastEvent' = [NoEvent EXCEPT !.ev = "logout"]
  /\ UNCHANGED <<isLoading, error, reloadPending, authOp, dataOp>>
  /\ UNCHANGED <<vacVars, dailyVars, weeklyVars, reqVars, calVars>>

\* a rendered page (or MainLayout) calls the API
StartDataRequest ==
  /\ view.page \notin {"Spin", "LoginPage"}
  /\ dataOp = Idle
  /\ dataOp' = NewCall("data", access)
  /\ lastEvent' = [NoEvent EXCEPT !.ev = "data.start"]
  /\ UNCHANGED <<access, refresh, user, isAuthenticated, isLoading, error,
                 location, view, reloadPending, authOp>>
  /\ UNCHANGED <<vacVars, dailyVars, weeklyVars, reqVars, calVars>>

\* the server answers the request on top of the page's call
DataResponse(status, pair) ==
  /\ dataOp # Idle
  /\ WillRefresh(dataOp, status, refresh) => dataOp.depth < MaxDepth
  /\ LET r == OnResponse(dataOp, status, pair, access, refresh)
     IN /\ dataOp' = r.op
        /\ access' = r.access
        /\ refresh' = r.refresh
        /\ reloadPending' = (reloadPending \/ r.reload)
        /\ lastEvent' = Event("data." \o r.out, dataOp, status, pair, "none",
                             "none", location)
  /\ UNCHANGED <<user, isAuthenticated, isLoading, error, location, view,
                 authOp>>
  /\ UNCHANGED <<vacVars, dailyVars, weeklyVars, reqVars, calVars>>

\* the tail of useAuthStore.login once api.login has settled
LoginSettled(r, role, pair, detail) ==
  IF r.out = "resolved"
  THEN /\ access' = pair /\ refresh' = pair
       /\ user' = role /\ isAuthenticated' = TRUE /\ isLoading' = FALSE
       /\ UNCHANGED error
       /\ Rerender("/", role, TRUE, FALSE)
  ELSE /\ access' = r.access /\ refresh' = r.refresh
       /\ error' = IF detail # "none" THEN detail ELSE "Login failed"
       /\ isLoading' = FALSE
       /\ UNCHANGED <<user, isAuthenticated>>
       /\ Rerender(location, user, isAuthenticated, FALSE)

\* CheckAuthSettled with the mutation "the catch does not call api.logout"
CheckAuthSettledKeepTokens(r, role) ==
  IF r.out = "resolved"
  THEN /\ access' = r.access /\ refresh' = r.refresh
       /\ user' = role /\ isAuthenticated' = TRUE /\ isLoading' = FALSE
       /\ UNCHANGED error
       /\ Rerender(location, role, TRUE, FALSE)
  ELSE /\ access' = r.access /\ refresh' = r.refresh
       /\ user' = "none" /\ isAuthenticated' = FALSE /\ isLoading' = FALSE
       /\ UNCHANGED error
       /\ Rerender(location, "none", FALSE, FALSE)

\* the tail of useAuthStore.checkAuth once api.getCurrentUser has settled
CheckAuthSettled(r, role) ==
  IF r.out = "resolved"
  THEN /\ access' = r.access /\ refresh' = r.refresh
       /\ user' = role /\ isAuthenticated' = TRUE /\ isLoading' = FALSE
       /\ UNCHANGED error
       /\ Rerender(location, role, TRUE, FALSE)
  ELSE /\ access' = 0 /\ refresh' = 0
       /\ user' = "none" /\ isAuthenticated' = FALSE /\ isLoading' = FALSE
       /\ UNCHANGED error
       /\ Rerender(location, "none", FALSE, FALSE)

\* the server answers the request on top of the store's call
AuthResponse(status, pair, role, detail) ==
  /\ authOp # Idle
  /\ WillRefresh(authOp, status, refresh) => authOp.depth < MaxDepth
  /\ status = 200 => detail = "none"
  /\ LET r == OnResponse(authOp, status, pair, access, refresh)
         name == (IF authOp.kind = "login" THEN "login." ELSE "checkAuth.")
                   \o r.out
     IN /\ authOp' = r.op
        /\ reloadPending' = (reloadPending \/ r.reload)
        /\ lastEvent' = Event(name, authOp, status, pair,
                              IF r.out = "rejected" THEN detail ELSE "none",
                              IF r.out = "resolved" THEN role ELSE "none",
                              location)
        /\ IF r.out = "pending"
           THEN /\ access' = r.access /\ refresh' = r.refresh
                /\ UNCHANGED <<user, isAuthenticated, isLoading, error,
                               location, view>>
           ELSE IF authOp.kind = "login"
                THEN LoginSettled(r, role, pair, detail)
                ELSE CheckAuthSettled(r, role)
  /\ UNCHANGED dataOp
  /\ UNCHANGED <<vacVars, dailyVars, weeklyVars, reqVars, calVars>>

Roles == {"employee", "admin"}
Pairs == 1..MaxPair

AuthNext ==
  \/ \E p \in Paths : PageLoad(p)
  \/ \E p \in Paths : MenuNavigate(p)
  \/ LoginSubmit
  \/ ClearError
  \/ StoreLogout
  \/ StartDataRequest
  \/ \E s \in Statuses, p \in Pairs : DataResponse(s, p)
  \/ \E s \in Statuses, p \in Pairs, r \in Roles,
        d \in {"none", "detail"} : AuthResponse(s, p, r, d)

(***************************************************************************)
(* dayjs values: a calendar day and whether the time of day is 00:00.      *)
(***************************************************************************)
Dates == 0..MaxDate

\* dayjs('YYYY-MM-DD'): local midnight of that day
ParseDate(str) == [day |-> str, atMidnight |-> TRUE]
\* x.format('YYYY-MM-DD'): the time of day is dropped
FormatDate(x) == x.day
StartOfDay(x) == [day |-> x.day, atMidnight |-> TRUE]
IsBefore(a, b) ==
  a.day < b.day \/ (a.day = b.day /\ a.atMidnight /\ ~b.atMidnight)
IsAfter(a, b) == IsBefore(b, a)
\* a day picked in a DatePicker panel carries the current time of day
Picked(d) == [day |-> d, atMidnight |-> FALSE]
NullDate == [day |-> -1, atMidnight |-> TRUE]

(***************************************************************************)
(* DashboardPage: the vacation request form and the edit form.             *)
(***************************************************************************)
VNow == [day |-> vToday, atMidnight |-> FALSE]

NoVacation == [id |-> 0, date_from |-> 0, date_to |-> 0]
NoRange == <<NullDate, NullDate>>
NoEdit == [date_from |-> NullDate, date_to |-> NullDate]
NoVacationRequest == [op |-> "none", id |-> 0, date_from |-> 0, date_to |-> 0]

\* the schedules the API can return: stored vacations have valid ranges
Schedules ==
  LET ranges == {r \in Dates \X Dates : r[1] <= r[2]}
  IN UNION {{{[id |-> i, date_from |-> f[i][1], date_to |-> f[i][2]] :
                i \in ids} : f \in [ids -> ranges]} :
            ids \in SUBSET (1..MaxVacations)}

canDeleteVacation(v) == IsAfter(ParseDate(v.date_from), StartOfDay(VNow))
\* isVacationStartEditable with the comparison dropped: never locked
isVacationStartEditableAlways(v) == TRUE
isVacationStartEditable(v) ==
  IsAfter(ParseDate(v.date_from), StartOfDay(VNow))
hasVacationEnded(v) == IsBefore(ParseDate(v.date_to), StartOfDay(VNow))
\* disabledDate of the edit form's pickers
disabledDate(current) == IsBefore(current, StartOfDay(VNow))

\* DatePicker.RangePicker keeps its two ends in order
RangePickerValue(a, b) ==
  IF a <= b THEN <<Picked(a), Picked(b)>> ELSE <<Picked(b), Picked(a)>>

VacInit ==
  /\ vToday \in 0..1
  /\ vacations = {}
  /\ vacationModalVisible = FALSE
  /\ vacationForm = NoRange
  /\ editVacationModalVisible = FALSE
  /\ editingVacation = NoVacation
  /\ editVacationForm = NoEdit
  /\ vacationRequest = NoVacationRequest
  /\ editOpenedOn = NullDate.day

NoVacModal == ~vacationModalVisible /\ ~editVacationModalVisible

\* the page is mounted (again): its state starts over and the mount
\* effect's fetchSchedule loads the list the server returns
fetchSchedule(list) ==
  /\ vacations' = list
  /\ vacationModalVisible' = FALSE
  /\ vacationForm' = NoRange
  /\ editVacationModalVisible' = FALSE
  /\ editingVacation' = NoVacation
  /\ editVacationForm' = NoEdit
  /\ vacationRequest' = NoVacationRequest
  /\ editOpenedOn' = NullDate.day
  /\ UNCHANGED vToday
  /\ UNCHANGED <<authVars, dailyVars, weeklyVars, reqVars, calVars>>

\* midnight passes
DayPasses ==
  /\ vToday < MaxDate
  /\ vToday' = vToday + 1
  /\ UNCHANGED <<vacations, vacationModalVisible, vacationForm,
                 editVacationModalVisible, editingVacation, editVacationForm>>
  /\ vacationRequest' = NoVacationRequest
  /\ UNCHANGED editOpenedOn
  /\ UNCHANGED <<authVars, dailyVars, weeklyVars, reqVars, calVars>>

\* the Vacation button of the dashboard header
OpenVacationModal ==
  /\ NoVacModal
  /\ vacationModalVisible' = TRUE
  /\ UNCHANGED <<vToday, vacations, vacationForm, editVacationModalVisible,
                 editingVacation, editVacationForm>>
  /\ vacationRequest' = NoVacationRequest
  /\ UNCHANGED editOpenedOn
  /\ UNCHANGED <<authVars, dailyVars, weeklyVars, reqVars, calVars>>

\* the user picks the two ends in the RangePicker
PickVacationRange(a, b) ==
  /\ vacationModalVisible
  /\ vacationForm' = RangePickerValue(a, b)
  /\ UNCHANGED <<vToday, vacations, vacationModalVisible,
                 editVacationModalVisible, editingVacation, editVacationForm>>
  /\ vacationRequest' = NoVacationRequest
  /\ UNCHANGED editOpenedOn
  /\ UNCHANGED <<authVars, dailyVars, weeklyVars, reqVars, calVars>>

\* onCancel of the request modal: the form keeps its value
CancelVacationModal ==
  /\ vacationModalVisible
  /\ vacationModalVisible' = FALSE
  /\ UNCHANGED <<vToday, vacations, vacationForm, editVacationModalVisible,
                 editingVacation, editVacationForm>>
  /\ vacationRequest' = NoVacationRequest
  /\ UNCHANGED editOpenedOn
  /\ UNCHANGED <<authVars, dailyVars, weeklyVars, reqVars, calVars>>

\* submit: the rule 'required' passed, handleCreateVacation runs; ok is
\* the server's verdict; on success the schedule is fetched again
handleCreateVacation(ok, list) ==
  /\ vacationModalVisible
  /\ vacationForm # NoRange
  /\ vacationRequest' = [op |-> "create", id |-> 0,
                         date_from |-> FormatDate(vacationForm[1]),
                         date_to |-> FormatDate(vacationForm[2])]
  /\ IF ok
     THEN /\ vacationModalVisible' = FALSE
          /\ vacationForm' = NoRange
          /\ vacations' = list
     ELSE UNCHANGED <<vacationModalVisible, vacationForm, vacations>>
  /\ UNCHANGED <<vToday, editVacationModalVisible, editingVacation,
                 editVacationForm>>
  /\ UNCHANGED editOpenedOn
  /\ UNCHANGED <<authVars, dailyVars, weeklyVars, reqVars, calVars>>

\* the Edit button of a listed vacation that has not ended
openEditVacationModal(v) ==
  /\ NoVacModal
  /\ v \in vacations
  /\ ~hasVacationEnded(v)
  /\ editingVacation' = v
  /\ LET startDate == ParseDate(v.date_from)
         effectiveStartDate == IF IsBefore(startDate, VNow) THEN VNow
                               ELSE startDate
     IN editVacationForm' = [date_from |-> effectiveStartDate,
                             date_to |-> ParseDate(v.date_to)]
  /\ editVacationModalVisible' = TRUE
  /\ editOpenedOn' = VNow.day
  /\ UNCHANGED <<vToday, vacations, vacationModalVisible, vacationForm>>
  /\ vacationRequest' = NoVacationRequest
  /\ UNCHANGED <<authVars, dailyVars, weeklyVars, reqVars, calVars>>

\* the start date picker: enabled only while the start is editable
PickEditStart(d) ==
  /\ editVacationModalVisible /\ editingVacation # NoVacation
  /\ isVacationStartEditable(editingVacation)
  /\ ~disabledDate(Picked(d))
  /\ editVacationForm' = [editVacationForm EXCEPT !.date_from = Picked(d)]
  /\ UNCHANGED <<vToday, vacations, vacationModalVisible, vacationForm,
                 editVacationModalVisible, editingVacation>>
  /\ vacationRequest' = NoVacationRequest
  /\ UNCHANGED editOpenedOn
  /\ UNCHANGED <<authVars, dailyVars, weeklyVars, reqVars, calVars>>

\* the end date picker
PickEditEnd(d) ==
  /\ editVacationModalVisible /\ editingVacation # NoVacation
  /\ ~disabledDate(Picked(d))
  /\ editVacationForm' = [editVacationForm EXCEPT !.date_to = Picked(d)]
  /\ UNCHANGED <<vToday, vacations, vacationModalVisible, vacationForm,
                 editVacationModalVisible, editingVacation>>
  /\ vacationRequest' = NoVacationRequest
  /\ UNCHANGED editOpenedOn
  /\ UNCHANGED <<authVars, dailyVars, weeklyVars, reqVars, calVars>>

\* onCancel / Cancel of the edit modal
CancelEditVacation ==
  /\ editVacationModalVisible
  /\ editVacationModalVisible' = FALSE
  /\ editingVacation' = NoVacation
  /\ editVacationForm' = NoEdit
  /\ editOpenedOn' = NullDate.day
  /\ UNCHANGED <<vToday, vacations, vacationModalVisible, vacationForm>>
  /\ vacationRequest' = NoVacationRequest
  /\ UNCHANGED <<authVars, dailyVars, weeklyVars, reqVars, calVars>>

\* Save of the edit modal
handleEditVacation(ok, list) ==
  /\ editVacationModalVisible
  /\ editingVacation # NoVacation
  /\ editVacationForm.date_from # NullDate
  /\ editVacationForm.date_to # NullDate
  /\ vacationRequest' = [op |-> "update", id |-> editingVacation.id,
                         date_from |-> FormatDate(editVacationForm.date_from),
                         date_to |-> FormatDate(editVacationForm.date_to)]
  /\ IF ok
     THEN /\ editVacationModalVisible' = FALSE
          /\ editVacationForm' = NoEdit
          /\ editingVacation' = NoVacation
          /\ editOpenedOn' = NullDate.day
          /\ vacations' = list
     ELSE UNCHANGED <<editVacationModalVisible, editVacationForm,
                      editingVacation, vacations, editOpenedOn>>
  /\ UNCHANGED <<vToday, vacationModalVisible, vacationForm>>
  /\ UNCHANGED <<authVars, dailyVars, weeklyVars, reqVars, calVars>>

VacNext ==
  \/ \E list \in Schedules : fetchSchedule(list)
  \/ DayPasses
  \/ OpenVacationModal
  \/ \E a, b \in Dates : PickVacationRange(a, b)
  \/ CancelVacationModal
  \/ \E ok \in BOOLEAN, list \in Schedules : handleCreateVacation(ok, list)
  \/ \E v \in vacations : openEditVacationModal(v)
  \/ \E d \in Dates : PickEditStart(d)
  \/ \E d \in Dates : PickEditEnd(d)
  \/ CancelEditVacation
  \/ \E ok \in BOOLEAN, list \in Schedules : handleEditVacation(ok, list)

(***************************************************************************)
(* Admin daily overview: fetchDailyData.  Times of day are minutes since   *)
(* local midnight; totalHours is kept in minutes (60 * totalHours).        *)
(***************************************************************************)
\* a day without a clock change, and the two days of 2025 on which
\* Europe/Riga changes its offset (03:00 -> 04:00 and 04:00 -> 03:00)
OverviewDates == {"2025-03-28", "2025-03-30", "2025-10-26"}
TimeZones == {"UTC", "Europe/Riga"}
ClockTimes == {120, 300, 540}     \* 02:00, 05:00 and 09:00
NullBreak == -1                   \* break_minutes is null
\* stored entries end after they start
EntryTemplates ==
  {t \in [start_time : ClockTimes, end_time : ClockTimes,
          break_minutes : {NullBreak, 60}] : t.start_time < t.end_time}
EntryLists == UNION {[1..n -> EntryTemplates] : n \in 0..MaxEntries}
Employees == 1..MaxEmployees
\* per employee: the entries, and whether the entries request fails or
\* the status request reports the employee sick
EmployeeData == [entries : EntryLists, outcome : {"ok", "sick", "error"}]

\* the UTC offset, in minutes, of a local date and time
utcOffset(tz, date, t) ==
  IF tz = "UTC" THEN 0
  ELSE CASE date = "2025-03-30" -> (IF t < 180 THEN 120 ELSE 180)
         [] date = "2025-10-26" -> (IF t < 240 THEN 180 ELSE 120)
         [] OTHER -> 120

\* dayjs(`${date} ${time}`): the instant of a local date and time,
\* in minutes from 00:00 UTC of that date
LocalInstant(tz, date, t) == t - utcOffset(tz, date, t)

\* end.diff(start, 'hour', true), in minutes: elapsed time
DiffMinutes(tz, date, end, start) ==
  LocalInstant(tz, date, end) - LocalInstant(tz, date, start)

\* (entry.break_minutes || 0)
BreakOrZero(b) == IF b = NullBreak THEN 0 ELSE b

\* entries.reduce(...) of fetchDailyData, over the first k entries
RECURSIVE ReduceHours(_, _, _)
ReduceHours(tz, entries, k) ==
  IF k = 0 THEN 0
  ELSE LET entry == entries[k]
           hours == DiffMinutes(tz, entry.date, entry.end_time,
                                entry.start_time)
                      - BreakOrZero(entry.break_minutes)
       IN ReduceHours(tz, entries, k - 1) + hours

\* GET /admin/employees/{id}/time-entries for one date
getEmployeeTimeEntries(e, date) ==
  [k \in 1..Len(dServer[e].entries) |->
     [date |-> date,
      start_time |-> dServer[e].entries[k].start_time,
      end_time |-> dServer[e].entries[k].end_time,
      break_minutes |-> dServer[e].entries[k].break_minutes]]

\* the row fetchDailyData pushes for one employee
EmployeeDayData(e, date) ==
  IF dServer[e].outcome = "error"
  THEN [user |-> e, entries |-> <<>>, totalHours |-> 0, status |-> "absent"]
  ELSE LET entries == getEmployeeTimeEntries(e, date)
       IN [user |-> e,
           entries |-> entries,
           totalHours |-> IF Len(entries) > 0
                          THEN ReduceHours(dTz, entries, Len(entries))
                          ELSE 0,
           status |-> IF dServer[e].outcome = "sick" THEN "sick"
                      ELSE IF Len(entries) > 0 THEN "working"
                      ELSE "absent"]

DailyIdle ==
  /\ dTz = "UTC"
  /\ dServer = [e \in Employees |->
                  [entries |-> <<>>, outcome |-> "ok"]]
  /\ selectedDate = "2025-03-28"
  /\ dailyData = <<>>

DailyInit ==
  /\ dTz \in TimeZones
  /\ dServer \in [Employees -> EmployeeData]
  /\ selectedDate = "2025-03-28"
  /\ dailyData = <<>>

\* the mount effect: fetchEmployees, then fetchDailyData
fetchDailyData ==
  /\ dailyData' = [e \in Employees |-> EmployeeDayData(e, selectedDate)]
  /\ UNCHANGED <<dTz, dServer, selectedDate>>
  /\ UNCHANGED <<authVars, vacVars, weeklyVars, reqVars, calVars>>

\* the date picker: setSelectedDate, whose effect fetches that date
handleDateChange(date) ==
  /\ dailyData # <<>>
  /\ selectedDate' = date
  /\ dailyData' = [e \in Employees |-> EmployeeDayData(e, date)]
  /\ UNCHANGED <<dTz, dServer>>
  /\ UNCHANGED <<authVars, vacVars, weeklyVars, reqVars, calVars>>

DailyNext ==
  \/ fetchDailyData
  \/ \E date \in OverviewDates : handleDateChange(date)

(***************************************************************************)
(* CalendarPage: the weekly reminder check.  Days are numbered from        *)
(* Monday 2026-04-20 (day 0); day 11 is Friday 2026-05-01, so the second   *)
(* week spans April and May.                                               *)
(***************************************************************************)
CalendarWindow == 0..13

\* dayjs .day(): 0 is Sunday
JsDay(d) == (d + 1) % 7
\* .month() + 1 and .date()
MonthOf(d) == IF d <= 10 THEN 4 ELSE 5
DayOfMonth(d) == IF d <= 10 THEN 20 + d ELSE d - 10
\* .format('YYYY-MM-DD')
DateStr(d) == <<2026, MonthOf(d), DayOfMonth(d)>>
\* .startOf('isoWeek'): the Monday of the ISO week
StartOfIsoWeek(d) == d - ((JsDay(d) + 6) % 7)

MonToFri(today) == StartOfIsoWeek(today)..(StartOfIsoWeek(today) + 4)

StatusTypes == {"normal", "sick", "vacation", "excused"}

BoundedSubsets(S, n) == {x \in SUBSET S : Cardinality(x) <= n}

\* the day statuses the server may hold for Monday..Friday of a week:
\* at most one status per day
StatusSets(today) ==
  UNION {{{[day |-> d, status |-> f[d]] : d \in ds} :
            f \in [ds -> StatusTypes]} :
         ds \in BoundedSubsets(MonToFri(today), MaxStatusDays)}

\* today, the user's role and the server's data for the current week
WeekData ==
  UNION {[today : {t}, role : {"employee", "admin"},
          holidays : BoundedSubsets(MonToFri(t), MaxHolidays),
          entryDates : BoundedSubsets(MonToFri(t), MaxEntryDays),
          statuses : StatusSets(t)] : t \in CalendarWindow}

\* GET /calendar/month: the days of one month
getCalendarMonth(year, month) ==
  {[date |-> DateStr(d),
    day_type |-> IF d \in wk.holidays THEN "holiday"
                 ELSE IF JsDay(d) \in {0, 6} THEN "weekend" ELSE "workday"] :
     d \in {x \in CalendarWindow : year = 2026 /\ MonthOf(x) = month}}

\* GET /time-entries for a date range: the dates of the entries
getTimeEntries(from, to) ==
  {DateStr(d) : d \in {x \in wk.entryDates : from <= x /\ x <= to}}

\* GET /day-status for a date range
getDayStatuses(from, to) ==
  {[date |-> DateStr(s.day), status |-> s.status] :
     s \in {x \in wk.statuses : from <= x.day /\ x.day <= to}}

\* SkipsDay with the mutation "sick, vacation and excused days are kept"
SkipsDayIgnoringStatus(currentDay, calendarData, statusesData) ==
  LET dateStr == DateStr(currentDay)
  IN \/ JsDay(currentDay) = 0 \/ JsDay(currentDay) = 6
     \/ \E calDay \in calendarData :
          calDay.date = dateStr /\ calDay.day_type = "holiday"

\* the three 'continue' branches of the walk
SkipsDay(currentDay, calendarData, statusesData) ==
  LET dateStr == DateStr(currentDay)
  IN \/ JsDay(currentDay) = 0 \/ JsDay(currentDay) = 6
     \/ \E calDay \in calendarData :
          calDay.date = dateStr /\ calDay.day_type = "holiday"
     \/ \E status \in statusesData :
          /\ status.date = dateStr
          /\ status.status \in {"sick", "vacation", "excused"}

\* the while loop of checkWeeklyEntries, from currentDay on
RECURSIVE MissingFrom(_, _, _, _, _)
MissingFrom(currentDay, weekEnd, calendarData, entriesData, statusesData) ==
  IF currentDay > weekEnd THEN <<>>
  ELSE LET rest == MissingFrom(currentDay + 1, weekEnd, calendarData,
                               entriesData, statusesData)
           hasEntry == DateStr(currentDay) \in entriesData
       IN IF SkipsDay(currentDay, calendarData, statusesData) THEN rest
          ELSE IF ~hasEntry THEN <<currentDay>> \o rest
          ELSE rest

\* the list 'missing' that checkWeeklyEntries builds
Missing ==
  LET today == wk.today
      weekStart == StartOfIsoWeek(today)
      weekEnd == weekStart + 4
  IN MissingFrom(weekStart, weekEnd,
                 getCalendarMonth(2026, MonthOf(today)),
                 getTimeEntries(weekStart, weekEnd),
                 getDayStatuses(weekStart, weekEnd))

NoDay == -1

WeeklyIdle ==
  /\ wk = [today |-> 0, role |-> "admin", holidays |-> {},
           entryDates |-> {}, statuses |-> {}]
  /\ weeklyReminderChecked = FALSE
  /\ missingDays = <<>>
  /\ currentFillingDay = NoDay
  /\ weeklyReminderVisible = FALSE

WeeklyInit ==
  /\ wk \in WeekData
  /\ weeklyReminderChecked = FALSE
  /\ missingDays = <<>>
  /\ currentFillingDay = NoDay
  /\ weeklyReminderVisible = FALSE

\* checkWeeklyEntries for an admin: nothing is fetched
checkWeeklyEntriesAdmin ==
  /\ ~weeklyReminderChecked
  /\ wk.role = "admin"
  /\ weeklyReminderChecked' = TRUE
  /\ UNCHANGED <<wk, missingDays, currentFillingDay, weeklyReminderVisible>>
  /\ UNCHANGED <<authVars, vacVars, dailyVars, reqVars, calVars>>

\* checkWeeklyEntries for an employee, the three fetches succeed
checkWeeklyEntries ==
  /\ ~weeklyReminderChecked
  /\ wk.role # "admin"
  /\ weeklyReminderChecked' = TRUE
  /\ IF Len(Missing) > 0
     THEN /\ missingDays' = Missing
          /\ currentFillingDay' = Missing[1]
          /\ weeklyReminderVisible' = TRUE
     ELSE UNCHANGED <<missingDays, currentFillingDay, weeklyReminderVisible>>
  /\ UNCHANGED wk
  /\ UNCHANGED <<authVars, vacVars, dailyVars, reqVars, calVars>>

\* checkWeeklyEntries for an employee, a fetch fails
checkWeeklyEntriesFailed ==
  /\ ~weeklyReminderChecked
  /\ wk.role # "admin"
  /\ weeklyReminderChecked' = TRUE
  /\ UNCHANGED <<wk, missingDays, currentFillingDay, weeklyReminderVisible>>
  /\ UNCHANGED <<authVars, vacVars, dailyVars, reqVars, calVars>>

WeeklyNext ==
  \/ checkWeeklyEntriesAdmin
  \/ checkWeeklyEntries
  \/ checkWeeklyEntriesFailed

(***************************************************************************)
(* Admin ChangeRequestsPage.                                               *)
(***************************************************************************)
RequestIds == 1..MaxRequests
RequestStatuses == {"pending", "approved", "rejected"}
NoFilter == "undefined"
NoRequest == [id |-> 0, status |-> "none"]
NoResolve == [id |-> 0, status |-> "none", loaded |-> "none",
              listed |-> "none"]

\* GET /change-requests/admin/all with the status filter
getAllChangeRequests(filter) ==
  {[id |-> i, status |-> crServer[i]] :
     i \in {x \in RequestIds : filter = NoFilter \/ crServer[x] = filter}}

\* the buttons of the actions column for one row
RowActions(record) ==
  IF record.status = "pending" THEN {"approve", "reject"} ELSE {"view"}

\* ModalFooter with the mutation "the resolve buttons are always shown"
ModalFooterAlwaysResolve(sel) == {"cancel", "reject", "approve"}

\* the footer of the resolve modal
ModalFooter(sel) ==
  IF sel.status = "pending" THEN {"cancel", "reject", "approve"}
  ELSE {"close"}

ListedStatus(id) ==
  IF \E r \in requests : r.id = id
  THEN (CHOOSE r \in requests : r.id = id).status
  ELSE "none"

ReqIdle ==
  /\ crServer = [i \in RequestIds |-> "pending"]
  /\ requests = {}
  /\ statusFilter = NoFilter
  /\ selectedRequest = NoRequest
  /\ resolveModalVisible = FALSE
  /\ resolving = FALSE
  /\ resolveCall = NoResolve
  /\ lastResolve = NoResolve

ReqInit ==
  /\ crServer \in [RequestIds -> RequestStatuses]
  /\ requests = {}
  /\ statusFilter = NoFilter
  /\ selectedRequest = NoRequest
  /\ resolveModalVisible = FALSE
  /\ resolving = FALSE
  /\ resolveCall = NoResolve
  /\ lastResolve = NoResolve

ReqFrame == UNCHANGED <<authVars, vacVars, dailyVars, weeklyVars, calVars>>

\* the mount effect and every later reload
fetchRequests ==
  /\ ~resolveModalVisible
  /\ requests' = getAllChangeRequests(statusFilter)
  /\ UNCHANGED <<crServer, statusFilter, selectedRequest,
                 resolveModalVisible, resolving, resolveCall, lastResolve>>
  /\ ReqFrame

\* the filter Select: setStatusFilter, whose effect reloads the list
setStatusFilter(f) ==
  /\ ~resolveModalVisible
  /\ statusFilter' = f
  /\ requests' = getAllChangeRequests(f)
  /\ UNCHANGED <<crServer, selectedRequest, resolveModalVisible, resolving,
                 resolveCall, lastResolve>>
  /\ ReqFrame

\* a button of the actions column is clicked
ClickRowAction(record, button) ==
  /\ ~resolveModalVisible
  /\ record \in requests
  /\ button \in RowActions(record)
  /\ selectedRequest' = record
  /\ resolveModalVisible' = TRUE
  /\ UNCHANGED <<crServer, requests, statusFilter, resolving, resolveCall,
                 lastResolve>>
  /\ ReqFrame

\* onCancel of the modal
ModalOnCancel ==
  /\ resolveModalVisible
  /\ resolveModalVisible' = FALSE
  /\ selectedRequest' = NoRequest
  /\ UNCHANGED <<crServer, requests, statusFilter, resolving, resolveCall,
                 lastResolve>>
  /\ ReqFrame

\* the footer's Cancel or Close button: only the modal is hidden
FooterClose ==
  /\ resolveModalVisible
  /\ {"cancel", "close"} \cap ModalFooter(selectedRequest) # {}
  /\ resolveModalVisible' = FALSE
  /\ UNCHANGED <<crServer, requests, statusFilter, selectedRequest,
                 resolving, resolveCall, lastResolve>>
  /\ ReqFrame

\* the footer's Reject or Approve button: handleResolve up to the await
handleResolve(approved) ==
  /\ resolveModalVisible
  /\ (IF approved THEN "approve" ELSE "reject") \in ModalFooter(selectedRequest)
  /\ ~resolving
  /\ selectedRequest # NoRequest
  /\ resolving' = TRUE
  /\ LET call == [id |-> selectedRequest.id,
                  status |-> IF approved THEN "approved" ELSE "rejected",
                  loaded |-> selectedRequest.status,
                  listed |-> ListedStatus(selectedRequest.id)]
     IN resolveCall' = call /\ lastResolve' = call
  /\ UNCHANGED <<crServer, requests, statusFilter, selectedRequest,
                 resolveModalVisible>>
  /\ ReqFrame

\* the call succeeded: the server holds the sent status, the modal is
\* closed and the list is loaded again
ResolveSucceeded ==
  /\ resolveCall # NoResolve
  /\ crServer' = [crServer EXCEPT ![resolveCall.id] = resolveCall.status]
  /\ resolveModalVisible' = FALSE
  /\ selectedRequest' = NoRequest
  /\ requests' = {[id |-> i, status |-> crServer'[i]] :
                    i \in {x \in RequestIds :
                             statusFilter = NoFilter
                               \/ crServer'[x] = statusFilter}}
  /\ resolving' = FALSE
  /\ resolveCall' = NoResolve
  /\ UNCHANGED <<statusFilter, lastResolve>>
  /\ ReqFrame

\* the call failed
ResolveFailed ==
  /\ resolveCall # NoResolve
  /\ resolving' = FALSE
  /\ resolveCall' = NoResolve
  /\ UNCHANGED <<crServer, requests, statusFilter, selectedRequest,
                 resolveModalVisible, lastResolve>>
  /\ ReqFrame

\* somebody else resolves a pending request on the server
ResolvedElsewhere(i, st) ==
  /\ crServer[i] = "pending"
  /\ st \in {"approved", "rejected"}
  /\ crServer' = [crServer EXCEPT ![i] = st]
  /\ UNCHANGED <<requests, statusFilter, selectedRequest,
                 resolveModalVisible, resolving, resolveCall, lastResolve>>
  /\ ReqFrame

ReqNext ==
  \/ fetchRequests
  \/ \E f \in {NoFilter} \cup RequestStatuses : setStatusFilter(f)
  \/ \E record \in requests, b \in {"approve", "reject", "view"} :
       ClickRowAction(record, b)
  \/ ModalOnCancel
  \/ FooterClose
  \/ \E approved \in BOOLEAN : handleResolve(approved)
  \/ ResolveSucceeded
  \/ ResolveFailed
  \/ \E i \in RequestIds, st \in RequestStatuses : ResolvedElsewhere(i, st)

(***************************************************************************)
(* Time entries: the server's table, DashboardPage's entry form and        *)
(* CalendarPage's day detail dialog, entry form and weekly reminder form.  *)
(* Days are day numbers of CalendarWindow, times are minutes of the day.   *)
(***************************************************************************)
\* today and the user's role when the pages start: Fri 2026-04-24,
\* Mon 2026-04-27 or Sat 2026-05-02
CalStarts == {<<4, "employee">>, <<7, "employee">>, <<12, "employee">>,
              <<12, "admin">>}
\* the date cells the user clicks: Mon 2026-04-27 and Fri 2026-05-01
CalDates == {7, 11}
\* the time pairs a user enters in an entry form: 08:00-12:00, 08:00-17:00
EntrySpans == {<<480, 720>>, <<480, 1020>>}

NoEntry == [id |-> 0, date |-> NoDay, start_time |-> 0, end_time |-> 0,
            break_minutes |-> 0]
NoSummary == [date |-> NoDay, entries |-> {}]
NoCall == [op |-> "none", id |-> 0, date |-> NoDay, start_time |-> 0,
           end_time |-> 0, break_minutes |-> 0]

\* TimeEntry.duration_minutes as the server reports it: the span less the
\* break
duration_minutes(e) == e.end_time - e.start_time - e.break_minutes

RECURSIVE SumDurations(_)
SumDurations(entries) ==
  IF entries = {} THEN 0
  ELSE LET e == CHOOSE x \in entries : TRUE
       IN duration_minutes(e) + SumDurations(entries \ {e})

\* GET /time-entries/day-summary
getDaySummary(server, date) ==
  [date |-> date, entries |-> {e \in server : e.date = date}]

\* POST /time-entries: the row gets the first free id
createTimeEntry(date, st, en, br) ==
  LET id == CHOOSE i \in 1..MaxTimeEntries : \A e \in teServer : e.id # i
  IN teServer \cup {[id |-> id, date |-> date, start_time |-> st,
                     end_time |-> en, break_minutes |-> br]}

\* PUT /time-entries/{id}
updateTimeEntry(id, st, en, br) ==
  {IF e.id = id
   THEN [e EXCEPT !.start_time = st, !.end_time = en, !.break_minutes = br]
   ELSE e : e \in teServer}

\* DELETE /time-entries/{id}
deleteTimeEntry(id) == {e \in teServer : e.id # id}

\* the week data the weekly check reads, after the table changed
WeekOf(server) == [wk EXCEPT !.entryDates = {e.date : e \in server}]

\* the day predicates of CalendarPage's render
isPastDate == calSelectedDate < wk.today
isFutureDate == calSelectedDate > wk.today
isToday == calSelectedDate = wk.today
canEditEntries == isToday
\* isFutureInCurrentWeek without the weekEnd limit
isFutureInCurrentWeekNoWeekEnd == isFutureDate
isFutureInCurrentWeek ==
  isFutureDate /\ ~(calSelectedDate > StartOfIsoWeek(wk.today) + 4)
canAddEntry == isToday \/ isFutureInCurrentWeek

\* the action button of the day detail dialog's footer
DetailFooterAction ==
  IF isPastDate
  THEN IF wk.role = "admin" THEN "addWorkTime" ELSE "requestChange"
  ELSE IF canAddEntry THEN "addWorkTime" ELSE "none"

\* the footer's add button is disabled on a sick or vacation day
addDisabled ==
  ~isPastDate /\ \E st \in wk.statuses :
                    st.day = calSelectedDate /\ st.status \in {"sick", "vacation"}

\* isFirstEntry and breakMins of the create handlers
isFirstEntry(summary) == summary.entries = {}
breakMins(summary) == IF isFirstEntry(summary) THEN 60 ELSE 0

\* neither page has loaded anything
CalIdle ==
  /\ teServer = {}
  /\ cPage = "dashboard"
  /\ todaySummary = NoSummary
  /\ calSelectedDate = NoDay
  /\ daySummary = NoSummary
  /\ detailModalVisible = FALSE
  /\ entryModalVisible = FALSE
  /\ editingEntry = NoEntry
  /\ changeRequestModalVisible = FALSE
  /\ summaryCalls = {}
  /\ lastCall = NoCall

\* the table starts empty; the dashboard is mounted and has loaded today's
\* summary
CalInit ==
  /\ teServer = {}
  /\ cPage = "dashboard"
  /\ todaySummary = getDaySummary({}, wk.today)
  /\ calSelectedDate = NoDay
  /\ daySummary = NoSummary
  /\ detailModalVisible = FALSE
  /\ entryModalVisible = FALSE
  /\ editingEntry = NoEntry
  /\ changeRequestModalVisible = FALSE
  /\ summaryCalls = {}
  /\ lastCall = NoCall

\* the weekly reminder state when the time-entry pages start: today, the
\* user's role, no holidays, and vacations from Tuesday to Thursday
WeeklyInitCalendar ==
  /\ wk \in {[today |-> c[1], role |-> c[2], holidays |-> {},
               entryDates |-> {},
               statuses |-> {[day |-> d, status |-> "vacation"] :
                               d \in {1, 2, 3, 8, 9, 10}}] :
              c \in CalStarts}
  /\ weeklyReminderChecked = FALSE
  /\ missingDays = <<>>
  /\ currentFillingDay = NoDay
  /\ weeklyReminderVisible = FALSE

\* the weekly reminder state of a CalendarPage that is not mounted, or has
\* just been mounted
WeeklyUnmounted ==
  /\ weeklyReminderChecked' = FALSE
  /\ missingDays' = <<>>
  /\ currentFillingDay' = NoDay
  /\ weeklyReminderVisible' = FALSE
  /\ UNCHANGED wk

CalFrame == UNCHANGED <<authVars, vacVars, dailyVars, reqVars>>

\* the menu opens the dashboard: DashboardPage mounts and fetchData loads
\* today's summary
MountDashboard ==
  /\ cPage' = "dashboard"
  /\ todaySummary' = getDaySummary(teServer, wk.today)
  /\ calSelectedDate' = NoDay
  /\ daySummary' = NoSummary
  /\ detailModalVisible' = FALSE
  /\ entryModalVisible' = FALSE
  /\ editingEntry' = NoEntry
  /\ changeRequestModalVisible' = FALSE
  /\ summaryCalls' = {}
  /\ lastCall' = NoCall
  /\ UNCHANGED teServer
  /\ WeeklyUnmounted
  /\ CalFrame

\* the menu opens the calendar: CalendarPage mounts with its initial state
MountCalendar ==
  /\ cPage' = "calendar"
  /\ todaySummary' = NoSummary
  /\ calSelectedDate' = wk.today
  /\ daySummary' = NoSummary
  /\ detailModalVisible' = FALSE
  /\ entryModalVisible' = FALSE
  /\ editingEntry' = NoEntry
  /\ changeRequestModalVisible' = FALSE
  /\ summaryCalls' = {}
  /\ lastCall' = NoCall
  /\ UNCHANGED teServer
  /\ WeeklyUnmounted
  /\ CalFrame

\* a modal dialog of the calendar page covers the calendar
CalendarCovered ==
  \/ detailModalVisible \/ entryModalVisible
  \/ changeRequestModalVisible \/ weeklyReminderVisible

\* handleDateSelect up to its await: a click on a date cell
handleDateSelect(date) ==
  /\ cPage = "calendar"
  /\ ~CalendarCovered
  /\ Cardinality(summaryCalls \cup {date}) <= MaxSummaryCalls
  /\ calSelectedDate' = date
  /\ summaryCalls' = summaryCalls \cup {date}
  /\ lastCall' = NoCall
  /\ UNCHANGED <<teServer, cPage, todaySummary, daySummary,
                 detailModalVisible, entryModalVisible, editingEntry,
                 changeRequestModalVisible>>
  /\ UNCHANGED weeklyVars
  /\ CalFrame

\* handleDateSelect after its await: the summary of a clicked date arrives
\* (ok) or the request fails
DaySummaryResponse(date, ok) ==
  /\ cPage = "calendar"
  /\ date \in summaryCalls
  /\ summaryCalls' = summaryCalls \ {date}
  /\ IF ok
     THEN /\ daySummary' = getDaySummary(teServer, date)
          /\ detailModalVisible' = TRUE
     ELSE UNCHANGED <<daySummary, detailModalVisible>>
  /\ lastCall' = NoCall
  /\ UNCHANGED <<teServer, cPage, todaySummary, calSelectedDate,
                 entryModalVisible, editingEntry, changeRequestModalVisible>>
  /\ UNCHANGED weeklyVars
  /\ CalFrame

\* the day detail dialog is the topmost dialog
DetailOnTop ==
  /\ cPage = "calendar"
  /\ detailModalVisible
  /\ ~entryModalVisible /\ ~changeRequestModalVisible
  /\ ~weeklyReminderVisible

\* Close / onCancel of the day detail dialog
CloseDetailModal ==
  /\ DetailOnTop
  /\ detailModalVisible' = FALSE
  /\ lastCall' = NoCall
  /\ UNCHANGED <<teServer, cPage, todaySummary, calSelectedDate, daySummary,
                 entryModalVisible, editingEntry, changeRequestModalVisible,
                 summaryCalls>>
  /\ UNCHANGED weeklyVars
  /\ CalFrame

\* the footer's 'add work time' button
ClickAddWorkTime ==
  /\ DetailOnTop
  /\ DetailFooterAction = "addWorkTime"
  /\ ~addDisabled
  /\ entryModalVisible' = TRUE
  /\ lastCall' = NoCall
  /\ UNCHANGED <<teServer, cPage, todaySummary, calSelectedDate, daySummary,
                 detailModalVisible, editingEntry, changeRequestModalVisible,
                 summaryCalls>>
  /\ UNCHANGED weeklyVars
  /\ CalFrame

\* the footer's 'request change' button
ClickRequestChange ==
  /\ DetailOnTop
  /\ DetailFooterAction = "requestChange"
  /\ changeRequestModalVisible' = TRUE
  /\ lastCall' = NoCall
  /\ UNCHANGED <<teServer, cPage, todaySummary, calSelectedDate, daySummary,
                 detailModalVisible, entryModalVisible, editingEntry,
                 summaryCalls>>
  /\ UNCHANGED weeklyVars
  /\ CalFrame

\* the Edit link of a listed entry: the entry form for today's date (and
\* for an admin, showEditTimeExpiredModal), else the change request form
\* that showEditTimeExpiredModal's confirm leads to
ClickEditEntry(entry) ==
  /\ DetailOnTop
  /\ entry \in daySummary.entries
  /\ IF canEditEntries \/ wk.role = "admin"
     THEN /\ editingEntry' = entry
          /\ entryModalVisible' = TRUE
          /\ UNCHANGED changeRequestModalVisible
     ELSE /\ changeRequestModalVisible' = TRUE
          /\ UNCHANGED <<editingEntry, entryModalVisible>>
  /\ lastCall' = NoCall
  /\ UNCHANGED <<teServer, cPage, todaySummary, calSelectedDate, daySummary,
                 detailModalVisible, summaryCalls>>
  /\ UNCHANGED weeklyVars
  /\ CalFrame

\* the Delete link of a listed entry: handleDeleteEntry for today's date,
\* else showEditTimeExpiredModal(entry, 'delete'); r is the server's
\* answer to a delete: "ok", "expired" (EDIT_TIME_EXPIRED) or "error"
ClickDeleteEntry(entry, r) ==
  /\ DetailOnTop
  /\ entry \in daySummary.entries
  /\ r = "ok" => \E e \in teServer : e.id = entry.id
  /\ IF canEditEntries \/ wk.role = "admin"
     THEN /\ lastCall' = [NoCall EXCEPT !.op = "delete", !.id = entry.id,
                                        !.date = entry.date]
          /\ IF r = "ok"
             THEN /\ teServer' = deleteTimeEntry(entry.id)
                  /\ daySummary' =
                       getDaySummary(deleteTimeEntry(entry.id),
                                     calSelectedDate)
                  /\ UNCHANGED changeRequestModalVisible
             ELSE /\ changeRequestModalVisible' =
                       (r = "expired" /\ canEditEntries
                          /\ wk.role # "admin")
                  /\ UNCHANGED <<teServer, daySummary>>
     ELSE /\ changeRequestModalVisible' = TRUE
          /\ lastCall' = NoCall
          /\ UNCHANGED <<teServer, daySummary>>
  /\ wk' = WeekOf(teServer')
  /\ UNCHANGED <<cPage, todaySummary, calSelectedDate, detailModalVisible,
                 entryModalVisible, editingEntry, summaryCalls>>
  /\ UNCHANGED <<weeklyReminderChecked, missingDays, currentFillingDay,
                 weeklyReminderVisible>>
  /\ CalFrame

\* the entry form is the topmost dialog
EntryFormOnTop ==
  /\ entryModalVisible
  /\ ~changeRequestModalVisible /\ ~weeklyReminderVisible

\* the X of the entry form (onCancel): the form and editingEntry are reset
EntryModalOnCancel ==
  /\ EntryFormOnTop
  /\ entryModalVisible' = FALSE
  /\ editingEntry' = NoEntry
  /\ lastCall' = NoCall
  /\ UNCHANGED <<teServer, cPage, todaySummary, calSelectedDate, daySummary,
                 detailModalVisible, changeRequestModalVisible, summaryCalls>>
  /\ UNCHANGED weeklyVars
  /\ CalFrame

\* the Cancel button of the entry form: only the dialog is closed
EntryModalCancelButton ==
  /\ EntryFormOnTop
  /\ entryModalVisible' = FALSE
  /\ lastCall' = NoCall
  /\ UNCHANGED <<teServer, cPage, todaySummary, calSelectedDate, daySummary,
                 detailModalVisible, editingEntry, changeRequestModalVisible,
                 summaryCalls>>
  /\ UNCHANGED weeklyVars
  /\ CalFrame

\* the server can take one more row
HasRoom == Cardinality(teServer) < MaxTimeEntries

\* CalendarPage.handleCreateEntry: submit of the entry form while
\* editingEntry is null
handleCreateEntry(st, en, ok) ==
  /\ cPage = "calendar"
  /\ EntryFormOnTop
  /\ editingEntry = NoEntry
  /\ ok => HasRoom
  /\ LET existingWorkMinutes == SumDurations(daySummary.entries)
         newWorkMinutes == (en - st) - breakMins(daySummary)
         totalWorkMinutes == existingWorkMinutes + newWorkMinutes
         server == createTimeEntry(calSelectedDate, st, en,
                                   breakMins(daySummary))
     IN IF totalWorkMinutes > 480
        THEN /\ lastCall' = NoCall
             /\ UNCHANGED <<teServer, entryModalVisible, daySummary>>
        ELSE /\ lastCall' = [op |-> "create", id |-> 0,
                             date |-> calSelectedDate,
                             start_time |-> st, end_time |-> en,
                             break_minutes |-> breakMins(daySummary)]
             /\ IF ok
                THEN /\ teServer' = server
                     /\ entryModalVisible' = FALSE
                     /\ daySummary' = getDaySummary(server, calSelectedDate)
                ELSE UNCHANGED <<teServer, entryModalVisible, daySummary>>
  /\ wk' = WeekOf(teServer')
  /\ UNCHANGED <<cPage, todaySummary, calSelectedDate, detailModalVisible,
                 editingEntry, changeRequestModalVisible, summaryCalls>>
  /\ UNCHANGED <<weeklyReminderChecked, missingDays, currentFillingDay,
                 weeklyReminderVisible>>
  /\ CalFrame

\* CalendarPage.handleEditEntry: submit of the entry form while editingEntry
\* is set; r is the server's answer: "ok", "expired" or "error"
handleEditEntry(st, en, r) ==
  /\ cPage = "calendar"
  /\ EntryFormOnTop
  /\ editingEntry # NoEntry
  /\ r = "ok" => \E e \in teServer : e.id = editingEntry.id
  /\ LET breakMinsKept == editingEntry.break_minutes
         workMinutes == (en - st) - breakMinsKept
         server == updateTimeEntry(editingEntry.id, st, en, breakMinsKept)
     IN IF workMinutes > 480
        THEN /\ lastCall' = NoCall
             /\ UNCHANGED <<teServer, entryModalVisible, editingEntry,
                            daySummary, changeRequestModalVisible>>
        ELSE /\ lastCall' = [op |-> "update", id |-> editingEntry.id,
                             date |-> editingEntry.date,
                             start_time |-> st, end_time |-> en,
                             break_minutes |-> breakMinsKept]
             /\ IF r = "ok"
                THEN /\ teServer' = server
                     /\ editingEntry' = NoEntry
                     /\ entryModalVisible' = FALSE
                     /\ daySummary' = getDaySummary(server, calSelectedDate)
                     /\ UNCHANGED changeRequestModalVisible
                ELSE IF r = "expired"
                THEN /\ editingEntry' = NoEntry
                     /\ entryModalVisible' = (wk.role = "admin")
                     /\ changeRequestModalVisible' = (wk.role # "admin")
                     /\ UNCHANGED <<teServer, daySummary>>
                ELSE UNCHANGED <<teServer, entryModalVisible, editingEntry,
                                 daySummary, changeRequestModalVisible>>
  /\ wk' = WeekOf(teServer')
  /\ UNCHANGED <<cPage, todaySummary, calSelectedDate, detailModalVisible,
                 summaryCalls>>
  /\ UNCHANGED <<weeklyReminderChecked, missingDays, currentFillingDay,
                 weeklyReminderVisible>>
  /\ CalFrame

\* the change request form: handleCreateChangeRequest (sent, ok or not) 
handleCreateChangeRequest(ok) ==
  /\ cPage = "calendar"
  /\ changeRequestModalVisible /\ ~weeklyReminderVisible
  /\ lastCall' = [NoCall EXCEPT !.op = "changeRequest",
                                !.date = calSelectedDate]
  /\ changeRequestModalVisible' = ~ok
  /\ UNCHANGED <<teServer, cPage, todaySummary, calSelectedDate, daySummary,
                 detailModalVisible, entryModalVisible, editingEntry,
                 summaryCalls>>
  /\ UNCHANGED weeklyVars
  /\ CalFrame

\* onCancel of the change request form
CancelChangeRequest ==
  /\ cPage = "calendar"
  /\ changeRequestModalVisible /\ ~weeklyReminderVisible
  /\ changeRequestModalVisible' = FALSE
  /\ lastCall' = NoCall
  /\ UNCHANGED <<teServer, cPage, todaySummary, calSelectedDate, daySummary,
                 detailModalVisible, entryModalVisible, editingEntry,
                 summaryCalls>>
  /\ UNCHANGED weeklyVars
  /\ CalFrame

\* DashboardPage: the 'add entry' button
OpenEntryModal ==
  /\ cPage = "dashboard"
  /\ ~entryModalVisible
  /\ entryModalVisible' = TRUE
  /\ lastCall' = NoCall
  /\ UNCHANGED <<teServer, cPage, todaySummary, calSelectedDate, daySummary,
                 detailModalVisible, editingEntry, changeRequestModalVisible,
                 summaryCalls>>
  /\ UNCHANGED weeklyVars
  /\ CalFrame

\* DashboardPage.handleCreateEntry, with the fetchData that follows a
\* success
DashboardHandleCreateEntry(st, en, ok) ==
  /\ cPage = "dashboard"
  /\ entryModalVisible
  /\ ok => HasRoom
  /\ LET existingWorkMinutes == SumDurations(todaySummary.entries)
         newWorkMinutes == (en - st) - breakMins(todaySummary)
         totalWorkMinutes == existingWorkMinutes + newWorkMinutes
         server == createTimeEntry(wk.today, st, en, breakMins(todaySummary))
     IN IF totalWorkMinutes > 480
        THEN /\ lastCall' = NoCall
             /\ UNCHANGED <<teServer, entryModalVisible, todaySummary>>
        ELSE /\ lastCall' = [op |-> "create", id |-> 0, date |-> wk.today,
                             start_time |-> st, end_time |-> en,
                             break_minutes |-> breakMins(todaySummary)]
             /\ IF ok
                THEN /\ teServer' = server
                     /\ entryModalVisible' = FALSE
                     /\ todaySummary' = getDaySummary(server, wk.today)
                ELSE UNCHANGED <<teServer, entryModalVisible, todaySummary>>
  /\ wk' = WeekOf(teServer')
  /\ UNCHANGED <<cPage, calSelectedDate, daySummary, detailModalVisible,
                 editingEntry, changeRequestModalVisible, summaryCalls>>
  /\ UNCHANGED <<weeklyReminderChecked, missingDays, currentFillingDay,
                 weeklyReminderVisible>>
  /\ CalFrame

\* missingDays without the day being filled
RemainingDays ==
  SelectSeq(missingDays, LAMBDA d : d # currentFillingDay)

\* CalendarPage.handleWeeklyEntrySubmit: the form of the weekly reminder
handleWeeklyEntrySubmit(st, en, ok) ==
  /\ cPage = "calendar"
  /\ weeklyReminderVisible
  /\ currentFillingDay # NoDay
  /\ ok => HasRoom
  /\ LET workMinutes == (en - st) - 60
         server == createTimeEntry(currentFillingDay, st, en, 60)
     IN IF workMinutes > 480
        THEN /\ lastCall' = NoCall
             /\ UNCHANGED <<teServer, missingDays, currentFillingDay,
                            weeklyReminderVisible>>
        ELSE /\ lastCall' = [op |-> "create", id |-> 0,
                             date |-> currentFillingDay,
                             start_time |-> st, end_time |-> en,
                             break_minutes |-> 60]
             /\ IF ok
                THEN /\ teServer' = server
                     /\ IF Len(RemainingDays) > 0
                        THEN /\ missingDays' = RemainingDays
                             /\ currentFillingDay' = RemainingDays[1]
                             /\ UNCHANGED weeklyReminderVisible
                        ELSE /\ weeklyReminderVisible' = FALSE
                             /\ missingDays' = <<>>
                             /\ currentFillingDay' = NoDay
                ELSE UNCHANGED <<teServer, missingDays, currentFillingDay,
                                 weeklyReminderVisible>>
  /\ wk' = WeekOf(teServer')
  /\ UNCHANGED weeklyReminderChecked
  /\ UNCHANGED <<cPage, todaySummary, calSelectedDate, daySummary,
                 detailModalVisible, entryModalVisible, editingEntry,
                 changeRequestModalVisible, summaryCalls>>
  /\ CalFrame

\* CalendarPage.handleSkipDay
handleSkipDay ==
  /\ cPage = "calendar"
  /\ weeklyReminderVisible
  /\ currentFillingDay # NoDay
  /\ IF Len(RemainingDays) > 0
     THEN /\ missingDays' = RemainingDays
          /\ currentFillingDay' = RemainingDays[1]
          /\ UNCHANGED weeklyReminderVisible
     ELSE /\ weeklyReminderVisible' = FALSE
          /\ UNCHANGED <<missingDays, currentFillingDay>>
  /\ lastCall' = NoCall
  /\ UNCHANGED <<wk, weeklyReminderChecked>>
  /\ UNCHANGED <<teServer, cPage, todaySummary, calSelectedDate, daySummary,
                 detailModalVisible, entryModalVisible, editingEntry,
                 changeRequestModalVisible, summaryCalls>>
  /\ CalFrame

\* onCancel of the weekly reminder
WeeklyReminderOnCancel ==
  /\ cPage = "calendar"
  /\ weeklyReminderVisible
  /\ weeklyReminderVisible' = FALSE
  /\ lastCall' = NoCall
  /\ UNCHANGED <<wk, weeklyReminderChecked, missingDays, currentFillingDay>>
  /\ UNCHANGED <<teServer, cPage, todaySummary, calSelectedDate, daySummary,
                 detailModalVisible, entryModalVisible, editingEntry,
                 changeRequestModalVisible, summaryCalls>>
  /\ CalFrame

\* the weekly check of the calendar page, 500 ms after it is mounted:
\* before the user has clicked a date
CalendarWeeklyCheck ==
  /\ cPage = "calendar"
  /\ ~CalendarCovered /\ summaryCalls = {} /\ daySummary = NoSummary
  /\ \/ checkWeeklyEntriesAdmin
     \/ checkWeeklyEntries
     \/ checkWeeklyEntriesFailed

CalNext ==
  \/ MountDashboard
  \/ MountCalendar
  \/ \E date \in CalDates : handleDateSelect(date)
  \/ \E date \in CalDates, ok \in BOOLEAN : DaySummaryResponse(date, ok)
  \/ CloseDetailModal
  \/ ClickAddWorkTime
  \/ ClickRequestChange
  \/ \E entry \in daySummary.entries : ClickEditEntry(entry)
  \/ \E entry \in daySummary.entries, r \in {"ok", "expired", "error"} :
        ClickDeleteEntry(entry, r)
  \/ EntryModalOnCancel
  \/ EntryModalCancelButton
  \/ \E p \in EntrySpans, ok \in BOOLEAN : handleCreateEntry(p[1], p[2], ok)
  \/ \E p \in EntrySpans, r \in {"ok", "expired", "error"} :
        handleEditEntry(p[1], p[2], r)
  \/ \E ok \in BOOLEAN : handleCreateChangeRequest(ok)
  \/ CancelChangeRequest
  \/ OpenEntryModal
  \/ \E p \in EntrySpans, ok \in BOOLEAN :
        DashboardHandleCreateEntry(p[1], p[2], ok)
  \/ \E p \in EntrySpans, ok \in BOOLEAN :
        handleWeeklyEntrySubmit(p[1], p[2], ok)
  \/ handleSkipDay
  \/ WeeklyReminderOnCancel
  \/ CalendarWeeklyCheck

\* the dates clicked in the day detail walk: Thursday to Saturday of the
\* first week, Monday, Friday and Saturday of the second
DetailDates == {3, 4, 5, 7, 11, 12}

\* the day detail walk starts on any day of the two weeks, for either role
WeeklyInitDetail ==
  /\ wk \in {[today |-> t, role |-> r, holidays |-> {}, entryDates |-> {},
               statuses |-> {}] : t \in CalendarWindow, r \in Roles}
  /\ weeklyReminderChecked = FALSE
  /\ missingDays = <<>>
  /\ currentFillingDay = NoDay
  /\ weeklyReminderVisible = FALSE

\* opening and closing the day detail dialog and its two forms, with
\* nothing submitted
DetailNext ==
  \/ MountDashboard
  \/ MountCalendar
  \/ \E date \in DetailDates : handleDateSelect(date)
  \/ \E date \in DetailDates, ok \in BOOLEAN : DaySummaryResponse(date, ok)
  \/ CloseDetailModal
  \/ ClickAddWorkTime
  \/ ClickRequestChange
  \/ EntryModalOnCancel
  \/ EntryModalCancelButton
  \/ CancelChangeRequest

(***************************************************************************)
(* Specifications: one per part of the client.                             *)
(***************************************************************************)
AuthIdle ==
  /\ access = 0 /\ refresh = 0
  /\ user = "none" /\ isAuthenticated = FALSE
  /\ isLoading = FALSE /\ error = "none"
  /\ location = "/login"
  /\ view = Render("/login", "none", FALSE, FALSE)
  /\ reloadPending = FALSE
  /\ authOp = Idle /\ dataOp = Idle
  /\ lastEvent = NoEvent

VacIdle ==
  /\ vToday = 0
  /\ vacations = {}
  /\ vacationModalVisible = FALSE
  /\ vacationForm = NoRange
  /\ editVacationModalVisible = FALSE
  /\ editingVacation = NoVacation
  /\ editVacationForm = NoEdit
  /\ vacationRequest = NoVacationRequest
  /\ editOpenedOn = NullDate.day

\* the auth store, the route guards and the axios client
Init == AuthInit /\ VacIdle /\ DailyIdle /\ WeeklyIdle /\ ReqIdle /\ CalIdle
Next == AuthNext
Spec == Init /\ [][Next]_vars

\* the dashboard's vacation forms
InitVacation == AuthIdle /\ VacInit /\ DailyIdle /\ WeeklyIdle /\ ReqIdle /\ CalIdle
SpecVacation == InitVacation /\ [][VacNext]_vars

\* the edit dialog alone, on any day and for any schedule already loaded;
\* the list shown after a save is the one shown before it (fetchSchedule
\* keeps the list when its request fails)
VacEditInit ==
  /\ vToday \in Dates
  /\ vacations \in Schedules
  /\ vacationModalVisible = FALSE
  /\ vacationForm = NoRange
  /\ editVacationModalVisible = FALSE
  /\ editingVacation = NoVacation
  /\ editVacationForm = NoEdit
  /\ vacationRequest = NoVacationRequest
  /\ editOpenedOn = NullDate.day
VacEditNext ==
  \/ DayPasses
  \/ \E v \in vacations : openEditVacationModal(v)
  \/ \E d \in Dates : PickEditStart(d)
  \/ \E d \in Dates : PickEditEnd(d)
  \/ CancelEditVacation
  \/ \E ok \in BOOLEAN : handleEditVacation(ok, vacations)
InitVacationEdit ==
  AuthIdle /\ VacEditInit /\ DailyIdle /\ WeeklyIdle /\ ReqIdle /\ CalIdle
SpecVacationEdit == InitVacationEdit /\ [][VacEditNext]_vars

\* the admin daily overview
InitDaily == AuthIdle /\ VacIdle /\ DailyInit /\ WeeklyIdle /\ ReqIdle /\ CalIdle
SpecDaily == InitDaily /\ [][DailyNext]_vars

\* the calendar page's weekly reminder
InitWeekly == AuthIdle /\ VacIdle /\ DailyIdle /\ WeeklyInit /\ ReqIdle /\ CalIdle
SpecWeekly == InitWeekly /\ [][WeeklyNext]_vars

\* the time entries: dashboard, calendar day dialog and weekly form
InitCalendar ==
  AuthIdle /\ VacIdle /\ DailyIdle /\ WeeklyInitCalendar /\ ReqIdle /\ CalInit
SpecCalendar == InitCalendar /\ [][CalNext]_vars

\* the day detail dialog on every day of the two weeks
InitDayDetail ==
  AuthIdle /\ VacIdle /\ DailyIdle /\ WeeklyInitDetail /\ ReqIdle /\ CalInit
SpecDayDetail == InitDayDetail /\ [][DetailNext]_vars

\* the admin change-requests page
InitRequests == AuthIdle /\ VacIdle /\ DailyIdle /\ WeeklyIdle /\ ReqInit /\ CalIdle
SpecRequests == InitRequests /\ [][ReqNext]_vars

(***************************************************************************)
(* Claims about the route guards, the interceptor and the auth store.      *)
(***************************************************************************)
CallOf(kind) == IF kind = "data" THEN dataOp ELSE authOp

\* C1: an /admin page component is on screen only while isLoading is
\* false, isAuthenticated is true and the user's role is admin; the admin
\* menu group is shown only to an admin; a visitor who is not
\* authenticated ends at /login, and an authenticated non-admin who asked
\* for an /admin URL ends at '/'.
C1_AdminGuard ==
  /\ view.page \in AdminPages =>
       ~isLoading /\ isAuthenticated /\ user = "admin"
  /\ view.adminMenu => user = "admin"
  /\ (~isLoading /\ ~isAuthenticated) =>
       location = "/login" /\ view.page = "LoginPage"
  /\ (lastEvent.path \in AdminPaths /\ ~isLoading /\ isAuthenticated
        /\ user # "admin"
        /\ lastEvent.ev \in {"checkAuth.resolved", "checkAuth.noToken"}) =>
       location = "/" /\ view.page = "DashboardPage"

\* C1 witness: checkAuth confirmed an employee who had asked for an
\* /admin URL, and the guard acted
C1_Witness ==
  /\ lastEvent.ev = "checkAuth.resolved"
  /\ lastEvent.path \in AdminPaths
  /\ user = "employee" /\ isAuthenticated /\ ~isLoading
  /\ location = "/"

\* C7 (as claimed): whenever a refresh request fails, whatever its error
\* status, the call is rejected at once with both tokens removed and the
\* page sent to /login.
C7_RefreshFailureLogsOut ==
  (lastEvent.depth > 1 /\ lastEvent.status # 200) =>
     /\ lastEvent.ev \in {"login.rejected", "checkAuth.rejected",
                          "data.rejected"}
     /\ access = 0 /\ refresh = 0
     /\ reloadPending

\* C8: when the refresh posted for a 401 of the original request
\* succeeds, both stored tokens are the pair of the refresh response and
\* the original request is in flight again, marked as retried, carrying
\* the new access token, as its second transmission; no original request
\* is transmitted more than twice, and a 401 for a retried original
\* request rejects the call.
C8_RefreshAndRetryOnce ==
  /\ (lastEvent.depth = 2 /\ lastEvent.status = 200) =>
       /\ access = lastEvent.pair /\ refresh = lastEvent.pair
       /\ CallOf(lastEvent.kind).depth = 1
       /\ CallOf(lastEvent.kind).retry
       /\ CallOf(lastEvent.kind).hdr = lastEvent.pair
       /\ CallOf(lastEvent.kind).sent = 2
  /\ authOp.sent <= 2 /\ dataOp.sent <= 2 /\ lastEvent.sent <= 2
  /\ (lastEvent.depth = 1 /\ lastEvent.retried /\ lastEvent.status = 401) =>
       /\ lastEvent.ev \in {"login.rejected", "checkAuth.rejected",
                            "data.rejected"}
       /\ CallOf(lastEvent.kind) = Idle

\* C8 witness: a retried original request has just been answered 401
C8_Witness ==
  /\ lastEvent.depth = 1 /\ lastEvent.retried /\ lastEvent.status = 401
  /\ lastEvent.sent = 2

\* the store after login has settled: the success branch of the try block
\* and the error and isLoading assignments of the catch block
LoginSettledState ==
  /\ lastEvent.ev = "login.resolved" =>
       /\ access = lastEvent.pair /\ refresh = lastEvent.pair
       /\ user = lastEvent.role /\ isAuthenticated /\ ~isLoading
       /\ error = "none"
  /\ lastEvent.ev = "login.rejected" =>
       /\ error = (IF lastEvent.detail # "none" THEN lastEvent.detail
                   ELSE "Login failed")
       /\ ~isLoading

\* the step in which a login call is rejected keeps user, isAuthenticated
\* and both stored tokens
LoginFailureFrame ==
  (authOp.kind = "login" /\ lastEvent'.ev = "login.rejected") =>
     /\ user' = user /\ isAuthenticated' = isAuthenticated
     /\ access' = access /\ refresh' = refresh

\* C9 (as claimed): a successful login stores the tokens of the response
\* and sets user, isAuthenticated, ~isLoading and no error; a failed
\* login sets error to the server detail or 'Login failed', clears
\* isLoading, and leaves user, isAuthenticated and the stored tokens as
\* they were.
C9_Login == []LoginSettledState /\ [][LoginFailureFrame]_vars

\* C10: when checkAuth has completed, isAuthenticated holds exactly if a
\* token was stored and the current-user request succeeded; without a
\* token the store is signed out and no call was made; after a failed
\* request both tokens are gone and user, isAuthenticated and isLoading
\* are cleared.
C10_CheckAuth ==
  /\ lastEvent.ev \in {"checkAuth.noToken", "checkAuth.resolved",
                       "checkAuth.rejected"} =>
       (isAuthenticated <=>
          (lastEvent.hadToken /\ lastEvent.ev = "checkAuth.resolved"))
  /\ lastEvent.ev = "checkAuth.noToken" =>
       ~isAuthenticated /\ user = "none" /\ authOp = Idle
  /\ lastEvent.ev = "checkAuth.resolved" =>
       user = lastEvent.role /\ ~isLoading
  /\ lastEvent.ev = "checkAuth.rejected" =>
       /\ access = 0 /\ refresh = 0
       /\ user = "none" /\ ~isAuthenticated /\ ~isLoading

\* C10 witness: the current-user request of a signed-in user has failed
C10_Witness ==
  /\ lastEvent.ev = "checkAuth.rejected"
  /\ lastEvent.hadToken
  /\ access = 0 /\ ~isAuthenticated

\* C2 (as claimed): every vacation create or update request sent by the
\* dashboard has date_to not before date_from.
C2_EndNotBeforeStart ==
  vacationRequest.op \in {"create", "update"} =>
     vacationRequest.date_to >= vacationRequest.date_from

RECURSIVE SumOver(_, _, _)
SumOver(F(_), seq, k) == IF k = 0 THEN 0 ELSE F(seq[k]) + SumOver(F, seq, k - 1)

ClockSpan(entry) == entry.end_time - entry.start_time
BreakOf(entry) == IF entry.break_minutes = NullBreak THEN 0
                  ELSE entry.break_minutes

\* C3 (as claimed): on every row of the daily overview, totalHours (in
\* minutes) is the sum of end_time - start_time over the row's entries
\* minus the sum of their break minutes, and 0 for a row without entries.
C3_TotalHours ==
  \A i \in 1..Len(dailyData) :
     LET row == dailyData[i]
     IN /\ row.totalHours =
             SumOver(ClockSpan, row.entries, Len(row.entries))
               - SumOver(BreakOf, row.entries, Len(row.entries))
        /\ Len(row.entries) = 0 => row.totalHours = 0

\* C4: the missing days are Monday-to-Friday dates of the current ISO
\* week, strictly ascending, none with a sick, vacation or excused status
\* and none with a time entry.
C4_MissingDays ==
  /\ \A i \in 1..Len(missingDays) :
       /\ missingDays[i] \in CalendarWindow
       /\ JsDay(missingDays[i]) \in 1..5
       /\ missingDays[i] - wk.today \in -6..6
       /\ missingDays[i] - ((JsDay(missingDays[i]) + 6) % 7)
            = wk.today - ((JsDay(wk.today) + 6) % 7)
       /\ missingDays[i] \notin wk.entryDates
       /\ ~\E s \in wk.statuses :
            s.day = missingDays[i]
              /\ s.status \in {"sick", "vacation", "excused"}
  /\ \A i, j \in 1..Len(missingDays) :
       i < j => missingDays[i] < missingDays[j]
  /\ weeklyReminderVisible =>
       Len(missingDays) > 0 /\ currentFillingDay = missingDays[1]

\* C4 witness: checkWeeklyEntries listed several days of a week in which one day
\* has a time entry and another a sick, vacation or excused status
C4_Witness ==
  /\ weeklyReminderChecked /\ weeklyReminderVisible
  /\ Len(missingDays) >= 2
  /\ wk.entryDates # {}
  /\ \E s \in wk.statuses : s.status \in {"sick", "vacation", "excused"}

\* C5 (as claimed): no holiday of the current week is listed as missing.
C5_NoHolidayMissing ==
  \A i \in 1..Len(missingDays) : missingDays[i] \notin wk.holidays

EntriesOf(d) == {e \in teServer : e.date = d}

\* C11 (as claimed): whatever add-entry and edit-entry submissions of an
\* employee the server has accepted, no day's total work time (the sum of
\* end - start - break over its entries) exceeds 480 minutes.
C11_DailyCap ==
  wk.role = "employee" =>
     \A d \in CalendarWindow : SumDurations(EntriesOf(d)) <= 480

\* every day has at most one entry with a break of 60 and the others have 0
BreakOnlyFirst ==
  wk.role = "employee" =>
     \A d \in CalendarWindow :
        /\ Cardinality({e \in EntriesOf(d) : e.break_minutes = 60}) <= 1
        /\ \A e \in EntriesOf(d) : e.break_minutes \in {0, 60}

\* an update request carries the break the entry had before the request
EditKeepsBreak ==
  lastCall'.op = "update" =>
     \A e \in teServer :
        e.id = lastCall'.id => lastCall'.break_minutes = e.break_minutes

\* C12 (as claimed): after any interleaving of an employee's add-entry
\* submissions and summary reloads, every day has at most one entry with
\* break_minutes = 60 and every other entry of the day has 0, and editing
\* an entry never changes its break.
C12_BreakOnlyFirst == []BreakOnlyFirst /\ [][EditKeepsBreak]_vars

\* C13 (as claimed): on the calendar page a user who is not an admin never
\* sends a direct update or delete of a time entry whose date is not today,
\* whatever the order in which the day selections and their day-summary
\* responses complete.
C13_DirectChangeOnlyToday ==
  (wk.role # "admin" /\ lastCall.op \in {"update", "delete"}) =>
     lastCall.date = wk.today

\* the Friday of the Monday-to-Sunday week that holds today
FridayOfThisWeek ==
  CHOOSE f \in CalendarWindow :
     JsDay(f) = 5 /\ f - 4 <= wk.today /\ wk.today <= f + 2

StartLockedAtOpen ==
  /\ editingVacation # NoVacation
  /\ editingVacation.date_from <= editOpenedOn

\* a save whose start picker is locked sends the stored start date
LockedSaveKeepsStart ==
  (/\ vacationRequest'.op = "update"
   /\ editingVacation # NoVacation
   /\ ~isVacationStartEditable(editingVacation)) =>
     vacationRequest'.date_from = editingVacation.date_from

\* C15 (as claimed): saving an edit of a vacation whose start date is
\* locked because the vacation has already started sends a date_from equal
\* to the vacation's stored date_from.
C15_LockedStartUnchanged == [][LockedSaveKeepsStart]_vars

\* a save of a dialog opened on a started vacation sends the later of the
\* stored start date and the day the dialog was opened
LockedSaveSendsLaterDay ==
  (vacationRequest'.op = "update" /\ StartLockedAtOpen) =>
     vacationRequest'.date_from =
        (IF editingVacation.date_from < editOpenedOn THEN editOpenedOn
         ELSE editingVacation.date_from)

\* C15 (amended): saving an edit of a vacation whose start date was locked
\* when the edit dialog was opened sends a date_from equal to the later of
\* the vacation's stored date_from and the day the dialog was opened.
C15_LockedStartLaterDay == [][LockedSaveSendsLaterDay]_vars

\* a save the server refused, of a vacation that had started before the
\* day its dialog was opened: the request carried the opening day
C15_Witness ==
  /\ vacationRequest.op = "update"
  /\ StartLockedAtOpen
  /\ editingVacation.date_from < editOpenedOn
  /\ vacationRequest.id = editingVacation.id
  /\ vacationRequest.date_from = editOpenedOn
====
